---- MODULE Spec2Model ----
(***************************************************************************)
(* A model of qiankun's ProxySandbox (src/src/sandbox/proxySandbox.ts).    *)
(*                                                                         *)
(* The shared global object (rawWindow) and each sandbox's overlay         *)
(* (fakeWindow) are maps from property keys to property descriptors.  The  *)
(* proxy traps are modelled together with the checks the JavaScript engine *)
(* makes around them: the module is strict-mode code, so a rejected        *)
(* assignment or delete throws a TypeError, and a Proxy checks its         *)
(* invariants against the target (fakeWindow) after every trap.            *)
(*                                                                         *)
(* The traps act on one key at a time and never look at another key, so a  *)
(* behaviour follows the accesses hosted code makes to one key, `focus`,   *)
(* drawn from Keys in the initial state.                                   *)
(*                                                                         *)
(* The operations are those the two handlers have traps for, the lifecycle *)
(* calls, and changes the platform or the host page makes to the window.   *)
(* Operations the handlers have no trap for (Object.preventExtensions,     *)
(* Object.setPrototypeOf on a proxy) reach the overlay directly; they are  *)
(* not operations of the sandbox and no action takes them.                 *)
(***************************************************************************)
EXTENDS Integers, Sequences, FiniteSets, TLC

\* ------------------------------------------------------------ bounds
\* number of operations (lifecycle calls, proxy accesses, changes of the
\* global by the environment) in one behaviour
MaxSteps == 4

\* ------------------------------------------------------------ values
Sandboxes == {"A", "B"}

\* JavaScript values are tokens.  "0" is the number 0 (falsy), "1", "2", "3"
\* are truthy numbers.
Falsy == {"undefined", "null", "false", "0", "", "NaN"}

Truthy(v) == v \notin Falsy

\* a || b
Or(a, b) == IF Truthy(a) THEN a ELSE b

\* the proxy object of a sandbox (this.proxy) and its documentProxy
proxy(sb) == "proxy(" \o sb \o ")"

documentProxy(sb) == "documentProxy(" \o sb \o ")"

\* the function getCreateElement resolves for an owner
getCreateElement(owner) == "createElement<" \o owner \o ">"

Functions == {getCreateElement(proxy(sb)) : sb \in Sandboxes} \cup {"customCreateElement"}

\* getTargetValue rebinds a function to the target and leaves every other
\* value alone
getTargetValue(target, value) ==
  IF value \in Functions THEN "bound(" \o target \o "," \o value \o ")" ELSE value

\* ------------------------------------------------------------ descriptors
\* kind: "absent" (no own property), "data" or "accessor".  An accessor has a
\* getter; `setter` tells whether it has a setter too; on rawWindow `value` is
\* what its getter returns now.
Absent ==
  [kind |-> "absent", value |-> "undefined", writable |-> FALSE, configurable |-> FALSE,
   setter |-> FALSE]

Data(v, w, c) ==
  [kind |-> "data", value |-> v, writable |-> w, configurable |-> c, setter |-> FALSE]

Accessor(v, s, c) ==
  [kind |-> "accessor", value |-> v, writable |-> FALSE, configurable |-> c, setter |-> s]

Aliases == {"top", "parent", "window", "self"}

\* the well-known symbol Symbol.unscopables, as a key
SymbolUnscopables == "Symbol(Symbol.unscopables)"

Keys == {"top", "document", "location", "Infinity", "foo", "counter", "Math",
         SymbolUnscopables}

\* the values hosted code writes, and the descriptors it defines
WriteValues == {"0", "1"}

DefineDescs == {Data("1", TRUE, TRUE), Data("1", FALSE, FALSE)}

\* the shared global object before any sandbox exists: a browser window, whose
\* "top" and "Infinity" are read-only data properties, "document" a getter and
\* "location" a getter and setter, all four non-configurable; "Math" is the
\* built-in, writable and configurable; "foo" is an ordinary global variable;
\* "counter" is not defined and no window has a Symbol.unscopables property
InitialWindow ==
  [k \in Keys |->
     CASE k = "top"      -> Data("rawWindow", FALSE, FALSE)
       [] k = "document" -> Accessor("rawDocument", FALSE, FALSE)
       [] k = "location" -> Accessor("/a", TRUE, FALSE)
       [] k = "Infinity" -> Data("Infinity", FALSE, FALSE)
       [] k = "foo"      -> Data("2", TRUE, TRUE)
       [] k = "Math"     -> Data("Math", TRUE, TRUE)
       [] OTHER          -> Absent]

\* values the environment gives a live property later
LiveValues(k) ==
  CASE k = "location" -> {"/a", "/b"}
    [] k = "foo"      -> {"2", "3"}
    [] OTHER          -> {}

\* ------------------------------------------------------------ engine semantics
hasOwn(obj, k) == obj[k].kind # "absent"

\* obj[k] read with obj as receiver.  A copied native getter called on the
\* overlay is an illegal invocation.
PropValue(obj, k, isRaw) ==
  CASE obj[k].kind = "absent"   -> "undefined"
    [] obj[k].kind = "data"     -> obj[k].value
    [] OTHER                    -> IF isRaw THEN obj[k].value ELSE "TypeError"

\* obj[k] = v in strict mode on the overlay: the property after the
\* assignment, or the unchanged property when the assignment throws (a
\* read-only property, a missing setter, or a native setter that rejects the
\* overlay as receiver)
CanAssign(d) == d.kind = "absent" \/ (d.kind = "data" /\ d.writable)

Assign(d, v) ==
  IF d.kind = "absent" THEN Data(v, TRUE, TRUE) ELSE [d EXCEPT !.value = v]

\* delete obj[k] in strict mode throws on a non-configurable property
CanDelete(d) == d.kind = "absent" \/ d.configurable

\* ValidateAndApplyPropertyDescriptor for a fully specified data descriptor
CanDefine(current, desc) ==
  \/ current.kind = "absent"
  \/ current.configurable
  \/ /\ ~desc.configurable
     /\ current.kind = "data"
     /\ \/ current.writable
        \/ (~desc.writable /\ desc.value = current.value)


\* ------------------------------------------------------------ own keys
\* keys that are symbols; every other key is a string
SymbolKeys == {SymbolUnscopables}

\* the order in which the window's properties were created before any sandbox
\* existed; a property created later comes after those
KeyOrder == <<"top", "document", "location", "Infinity", "foo", "counter", "Math",
              SymbolUnscopables>>

\* An object lists its own keys in creation order.  keys is the list before
\* a step that takes the object from `before` to `after`: a key the object
\* no longer owns leaves the list, a key it newly owns goes to the end, and a
\* key whose property was only redefined stays where it is.
keysAfter(keys, before, after) ==
  SelectSeq(keys, LAMBDA k : hasOwn(after, k))
    \o SelectSeq(KeyOrder, LAMBDA k : hasOwn(after, k) /\ ~hasOwn(before, k))

\* Object.getOwnPropertyNames: the string keys, in creation order
getOwnPropertyNames(keys) == SelectSeq(keys, LAMBDA k : k \notin SymbolKeys)

\* Reflect.ownKeys: the string keys in creation order, then the symbols
ownKeysOf(keys) ==
  getOwnPropertyNames(keys) \o SelectSeq(keys, LAMBDA k : k \in SymbolKeys)

\* ------------------------------------------------------------ createFakeWindow
\* the descriptor createFakeWindow copies for key k of the global
copiedDescriptor(global, k) ==
  LET descriptor == global[k]
      hasGetter == descriptor.kind = "accessor"
      relaxed == IF k \in Aliases
                 THEN [descriptor EXCEPT !.configurable = TRUE,
                                         !.writable = IF hasGetter THEN @ ELSE TRUE]
                 ELSE descriptor
  IN  IF hasGetter THEN [relaxed EXCEPT !.value = "undefined"] ELSE relaxed

\* names is Object.getOwnPropertyNames(global): symbol keys are not copied.
\* `keys` is the overlay's own keys in the order they were defined.
createFakeWindow(global, names) ==
  LET copied == SelectSeq(names, LAMBDA k : hasOwn(global, k) /\ ~global[k].configurable)
      nonConfigurable == {copied[i] : i \in 1..Len(copied)}
  IN  [fakeWindow |-> [k \in Keys |-> IF k \in nonConfigurable
                                      THEN copiedDescriptor(global, k)
                                      ELSE Absent],
       propertiesWithGetter |-> {k \in nonConfigurable : global[k].kind = "accessor"},
       keys |-> copied]

\* ------------------------------------------------------------ state
VARIABLES
  rawWindow,            \* the shared global object: key -> descriptor
  rawWindowKeys,        \* the shared global object's own keys, in creation order
  focus,                \* the key hosted code accesses in this behaviour
  built,                \* the sandboxes constructed so far
  fakeWindow,           \* per sandbox: the overlay, key -> descriptor
  fakeWindowKeys,       \* per sandbox: the overlay's own keys, in creation order
  propertiesWithGetter, \* per sandbox: keys whose global descriptor had a getter
  updatedValueSet,      \* per sandbox: keys written while running
  descriptorTargetMap,  \* per sandbox: key -> "none" | "target" | "rawWindow"
  sandboxRunning,       \* per sandbox: the running flag
  activeSandboxCount,   \* the module-level counter
  fakeDocument,         \* per sandbox: the document overlay [tag, createElement]
  described,            \* per sandbox and key, a history of getOwnPropertyDescriptor: where
                        \* the latest call found the key, and the latest call that found it
  calls,                \* the active()/inactive() calls made so far, in order
  last,                 \* the latest operation, its arguments and its outcome
  steps                 \* operations performed so far

vars == <<rawWindow, rawWindowKeys, focus, built, fakeWindow, fakeWindowKeys,
          propertiesWithGetter, updatedValueSet,
          descriptorTargetMap, sandboxRunning, activeSandboxCount, fakeDocument,
          described, calls, last, steps>>

\* the key under which the document overlay keeps the Attribution Tag
attachDocProxySymbol == "Symbol(attach-proxy)"

\* a key the document overlay does not own
NoProperty == "<no property>"

EmptyDocument == [tag |-> NoProperty, createElement |-> NoProperty]

\* target[p] on the document overlay
DocGet(v) == IF v = NoProperty THEN "undefined" ELSE v

\* the record of an operation: its arguments, what the caller saw (ret), and
\* for a set whether the onWrite hook ran, for inactive() the flag handed to
\* the teardown hook, for ownKeys the list returned, for a set on the document
\* handle the "createElement" entry it found
Op(op, sb, key, value, desc, ret) ==
  [op |-> op, sb |-> sb, key |-> key, value |-> value, desc |-> desc, ret |-> ret,
   intercepted |-> FALSE, isLastActive |-> FALSE, keys |-> <<>>, replaced |-> "undefined"]

Init ==
  /\ rawWindow = InitialWindow
  /\ rawWindowKeys = SelectSeq(KeyOrder, LAMBDA k : hasOwn(InitialWindow, k))
  /\ focus \in Keys
  /\ built = {}
  /\ fakeWindow = [sb \in Sandboxes |-> [k \in Keys |-> Absent]]
  /\ fakeWindowKeys = [sb \in Sandboxes |-> <<>>]
  /\ propertiesWithGetter = [sb \in Sandboxes |-> {}]
  /\ updatedValueSet = [sb \in Sandboxes |-> {}]
  /\ descriptorTargetMap = [sb \in Sandboxes |-> [k \in Keys |-> "none"]]
  /\ sandboxRunning = [sb \in Sandboxes |-> FALSE]
  /\ activeSandboxCount = 0
  /\ fakeDocument = [sb \in Sandboxes |-> EmptyDocument]
  /\ described = [sb \in Sandboxes |->
                    [k \in Keys |-> [latest |-> "none", resolved |-> "none"]]]
  /\ calls = <<>>
  /\ last = Op("none", "none", "none", "undefined", Absent, "undefined")
  /\ steps = 0

\* every operation is one step of the budget
Step == steps < MaxSteps /\ steps' = steps + 1

\* the own-key lists follow what the step did to the two objects
KeysFollow ==
  /\ rawWindowKeys' = keysAfter(rawWindowKeys, rawWindow, rawWindow')
  /\ fakeWindowKeys' =
       [sb \in Sandboxes |-> keysAfter(fakeWindowKeys[sb], fakeWindow[sb], fakeWindow'[sb])]

\* ------------------------------------------------------------ constructor
\* new ProxySandbox(name)
Construct(sb) ==
  /\ sb \notin built
  /\ built' = built \cup {sb}
  /\ LET made == createFakeWindow(rawWindow, getOwnPropertyNames(rawWindowKeys))
     IN  /\ fakeWindow' = [fakeWindow EXCEPT ![sb] = made.fakeWindow]
         /\ fakeWindowKeys' = [fakeWindowKeys EXCEPT ![sb] = made.keys]
         /\ propertiesWithGetter' =
              [propertiesWithGetter EXCEPT ![sb] = made.propertiesWithGetter]
  /\ sandboxRunning' = [sandboxRunning EXCEPT ![sb] = TRUE]
  /\ last' = Op("new", sb, "none", "undefined", Absent, "undefined")
  /\ UNCHANGED <<rawWindow, rawWindowKeys, focus, updatedValueSet, descriptorTargetMap,
                 activeSandboxCount, fakeDocument, described, calls, steps>>

\* ------------------------------------------------------------ collaborators
\* the noise-suppression hooks are opaque to the sandbox; they leave the
\* properties followed here as they are.  interceptSystemJsProps is given the
\* written key and value and works on the global object; clearSystemJsProps
\* is given the sandbox's proxy, so all it can reach is that sandbox's overlay.
interceptSystemJsProps(global, p, value) == global

clearSystemJsProps(global, lastActive) == global

\* ------------------------------------------------------------ lifecycle
\* a variant of active() that counts every call
active_countsEveryCall(sb) ==
  /\ sb \in built
  /\ Step
  /\ activeSandboxCount' = activeSandboxCount + 1
  /\ sandboxRunning' = [sandboxRunning EXCEPT ![sb] = TRUE]
  /\ calls' = Append(calls, [op |-> "active", sb |-> sb, isLastActive |-> FALSE])
  /\ last' = Op("active", sb, "none", "undefined", Absent, "undefined")
  /\ UNCHANGED <<rawWindow, focus, built, fakeWindow, propertiesWithGetter, updatedValueSet,
                 descriptorTargetMap, fakeDocument, described>>
  /\ KeysFollow

active(sb) ==
  /\ sb \in built
  /\ Step
  /\ activeSandboxCount' = IF ~sandboxRunning[sb] THEN activeSandboxCount + 1
                           ELSE activeSandboxCount
  /\ sandboxRunning' = [sandboxRunning EXCEPT ![sb] = TRUE]
  /\ calls' = Append(calls, [op |-> "active", sb |-> sb, isLastActive |-> FALSE])
  /\ last' = Op("active", sb, "none", "undefined", Absent, "undefined")
  /\ UNCHANGED <<rawWindow, focus, built, fakeWindow, propertiesWithGetter, updatedValueSet,
                 descriptorTargetMap, fakeDocument, described>>
  /\ KeysFollow

\* a variant that compares before decrementing: activeSandboxCount-- === 0
isLastActive_postDecrement(count) == count = 0

\* the flag inactive() hands to clearSystemJsProps: --activeSandboxCount === 0
isLastActive(count) == count - 1 = 0

\* a variant of inactive() that throws the overlay away
inactive_resets(sb) ==
  /\ sb \in built
  /\ Step
  /\ activeSandboxCount' = activeSandboxCount - 1
  /\ sandboxRunning' = [sandboxRunning EXCEPT ![sb] = FALSE]
  /\ calls' = Append(calls, [op |-> "inactive", sb |-> sb,
                             isLastActive |-> isLastActive(activeSandboxCount)])
  /\ fakeWindow' = [fakeWindow EXCEPT
                      ![sb] = createFakeWindow(rawWindow,
                                               getOwnPropertyNames(rawWindowKeys)).fakeWindow]
  /\ updatedValueSet' = [updatedValueSet EXCEPT ![sb] = {}]
  /\ last' = [Op("inactive", sb, "none", "undefined", Absent, "undefined")
                EXCEPT !.isLastActive = isLastActive(activeSandboxCount)]
  /\ UNCHANGED <<rawWindow, focus, built, propertiesWithGetter,
                 descriptorTargetMap, fakeDocument, described>>
  /\ KeysFollow

inactive(sb) ==
  /\ sb \in built
  /\ Step
  /\ activeSandboxCount' = activeSandboxCount - 1
  /\ sandboxRunning' = [sandboxRunning EXCEPT ![sb] = FALSE]
  /\ calls' = Append(calls, [op |-> "inactive", sb |-> sb,
                             isLastActive |-> isLastActive(activeSandboxCount)])
  /\ fakeWindow' = [fakeWindow EXCEPT
                      ![sb] = clearSystemJsProps(@, isLastActive(activeSandboxCount))]
  /\ last' = [Op("inactive", sb, "none", "undefined", Absent, "undefined")
                EXCEPT !.isLastActive = isLastActive(activeSandboxCount)]
  /\ UNCHANGED <<rawWindow, focus, built, propertiesWithGetter, updatedValueSet,
                 descriptorTargetMap, fakeDocument, described>>
  /\ KeysFollow

\* ------------------------------------------------------------ documentProxy
\* a variant of the set trap that resolves the function for the first tag only
documentProxy_set_firstTagOnly(target, p, value) ==
  IF p = attachDocProxySymbol /\ DocGet(target.tag) # value
  THEN [tag |-> value,
        createElement |-> IF target.createElement = NoProperty
                          THEN getTargetValue("rawDocument", getCreateElement(value))
                          ELSE target.createElement]
  ELSE IF p = "createElement"
  THEN [target EXCEPT !.createElement = getTargetValue("rawDocument", value)]
  ELSE [target EXCEPT !.tag = value]

\* the document overlay after documentProxy's set trap
documentProxy_set(target, p, value) ==
  IF p = attachDocProxySymbol /\ DocGet(target.tag) # value
  THEN [tag |-> value,
        createElement |-> getTargetValue("rawDocument", getCreateElement(value))]
  ELSE IF p = "createElement"
  THEN [target EXCEPT !.createElement = getTargetValue("rawDocument", value)]
  ELSE [target EXCEPT !.tag = value]

documentProxy_get(target, p) ==
  IF p = attachDocProxySymbol THEN DocGet(target.tag) ELSE DocGet(target.createElement)

\* the document overlay after documentProxy's deleteProperty trap:
\* delete target[p]; delete target.createElement
documentProxy_deleteProperty(target, p) ==
  [tag |-> IF p = attachDocProxySymbol THEN NoProperty ELSE target.tag,
   createElement |-> NoProperty]

DocKeys == {attachDocProxySymbol, "createElement"}

\* hosted code reaches the document through its global handle
DocStep(sb) == sb \in built /\ focus = "document" /\ Step

DocumentSet(sb, p, value) ==
  /\ DocStep(sb)
  /\ fakeDocument' = [fakeDocument EXCEPT ![sb] = documentProxy_set(@, p, value)]
  /\ last' = [Op("document.set", sb, p, value, Absent, "true") EXCEPT
                !.replaced = documentProxy_get(fakeDocument[sb], "createElement")]
  /\ UNCHANGED <<rawWindow, focus, built, fakeWindow, propertiesWithGetter, updatedValueSet,
                 descriptorTargetMap, sandboxRunning, activeSandboxCount, described, calls>>
  /\ KeysFollow

DocumentGet(sb, p) ==
  /\ DocStep(sb)
  /\ last' = Op("document.get", sb, p, "undefined", Absent,
                documentProxy_get(fakeDocument[sb], p))
  /\ UNCHANGED <<rawWindow, focus, built, fakeWindow, propertiesWithGetter, updatedValueSet,
                 descriptorTargetMap, sandboxRunning, activeSandboxCount, fakeDocument,
                 described, calls>>
  /\ KeysFollow

DocumentDelete(sb, p) ==
  /\ DocStep(sb)
  /\ fakeDocument' = [fakeDocument EXCEPT ![sb] = documentProxy_deleteProperty(@, p)]
  /\ last' = Op("document.deleteProperty", sb, p, "undefined", Absent, "true")
  /\ UNCHANGED <<rawWindow, focus, built, fakeWindow, propertiesWithGetter, updatedValueSet,
                 descriptorTargetMap, sandboxRunning, activeSandboxCount, described, calls>>
  /\ KeysFollow

\* ------------------------------------------------------------ proxy: set
\* the Proxy's check after a set trap that returned true: a non-configurable
\* target property must be a writable data property, hold the same value, or
\* be an accessor with a setter
SetInvariantHolds(d, value) ==
  \/ d.kind = "absent"
  \/ d.configurable
  \/ (d.kind = "data" /\ (d.writable \/ d.value = value))
  \/ (d.kind = "accessor" /\ d.setter)

\* the outcome of proxy[p] = value: the overlay property afterwards, whether
\* the key was recorded and the hook called, and what the caller sees
proxy_set(running, d, value) ==
  IF running
  THEN IF CanAssign(d)
       THEN [prop |-> Assign(d, value), updated |-> TRUE, ret |-> "true"]
       ELSE [prop |-> d, updated |-> FALSE, ret |-> "TypeError"]
  ELSE [prop |-> d, updated |-> FALSE,
        ret |-> IF SetInvariantHolds(d, value) THEN "true" ELSE "TypeError"]

\* a variant whose set trap also assigns to the global object
ProxySet_leaks(sb, p, value) ==
  LET out == proxy_set(sandboxRunning[sb], fakeWindow[sb][p], value)
  IN  /\ sb \in built
      /\ p = focus
      /\ Step
      /\ fakeWindow' = [fakeWindow EXCEPT ![sb][p] = out.prop]
      /\ rawWindow' = [rawWindow EXCEPT
                         ![p] = IF out.updated /\ CanAssign(@) THEN Assign(@, value) ELSE @]
      /\ updatedValueSet' = [updatedValueSet EXCEPT
                               ![sb] = IF out.updated THEN @ \cup {p} ELSE @]
      /\ last' = [Op("set", sb, p, value, Absent, out.ret) EXCEPT !.intercepted = out.updated]
      /\ UNCHANGED <<focus, built, propertiesWithGetter, descriptorTargetMap,
                     sandboxRunning, activeSandboxCount, fakeDocument, described, calls>>
      /\ KeysFollow

\* proxy[p] = value
ProxySet(sb, p, value) ==
  LET out == proxy_set(sandboxRunning[sb], fakeWindow[sb][p], value)
  IN  /\ sb \in built
      /\ p = focus
      /\ Step
      /\ fakeWindow' = [fakeWindow EXCEPT ![sb][p] = out.prop]
      /\ updatedValueSet' = [updatedValueSet EXCEPT
                               ![sb] = IF out.updated THEN @ \cup {p} ELSE @]
      /\ rawWindow' = IF out.updated THEN interceptSystemJsProps(rawWindow, p, value)
                       ELSE rawWindow
      /\ last' = [Op("set", sb, p, value, Absent, out.ret) EXCEPT !.intercepted = out.updated]
      /\ UNCHANGED <<focus, built, propertiesWithGetter, descriptorTargetMap,
                     sandboxRunning, activeSandboxCount, fakeDocument, described, calls>>
      /\ KeysFollow

\* ------------------------------------------------------------ proxy: get
\* the object the get trap returns for Symbol.unscopables is the token
\* "unscopables"
\* a variant that does not consult propertiesWithGetter
getTrap_overlayFirst(sb, p, target, getters, global) ==
  IF p = SymbolUnscopables THEN "unscopables"
  ELSE IF p \in Aliases THEN proxy(sb)
  ELSE IF p = "hasOwnProperty" THEN "hasOwnProperty"
  ELSE IF p = "document" THEN documentProxy(sb)
  ELSE getTargetValue("rawWindow", Or(PropValue(target, p, FALSE), PropValue(global, p, TRUE)))

\* what the get trap returns
getTrap(sb, p, target, getters, global) ==
  IF p = SymbolUnscopables THEN "unscopables"
  ELSE IF p \in Aliases THEN proxy(sb)
  ELSE IF p = "hasOwnProperty" THEN "hasOwnProperty"
  ELSE IF p = "document" THEN documentProxy(sb)
  ELSE getTargetValue("rawWindow",
         IF p \in getters THEN PropValue(global, p, TRUE)
         ELSE Or(PropValue(target, p, FALSE), PropValue(global, p, TRUE)))

\* the Proxy's check on a get trap's result: a non-configurable, non-writable
\* data property of the target must be reported with its own value
GetInvariantHolds(d, result) ==
  \/ d.kind # "data"
  \/ d.configurable
  \/ d.writable
  \/ d.value = result

\* what proxy[p] evaluates to
proxy_get(sb, p, target, getters, global) ==
  LET result == getTrap(sb, p, target, getters, global)
  IN  IF result = "TypeError" \/ ~GetInvariantHolds(target[p], result)
      THEN "TypeError"
      ELSE result

\* proxy[p] in the current state
Read(sb, p) == proxy_get(sb, p, fakeWindow[sb], propertiesWithGetter[sb], rawWindow)

ProxyGet(sb, p) ==
  /\ sb \in built
  /\ p = focus
  /\ Step
  /\ fakeDocument' = IF p = "document"
                     THEN [fakeDocument EXCEPT
                             ![sb] = documentProxy_set(@, attachDocProxySymbol, proxy(sb))]
                     ELSE fakeDocument
  /\ last' = Op("get", sb, p, "undefined", Absent, Read(sb, p))
  /\ UNCHANGED <<rawWindow, focus, built, fakeWindow, propertiesWithGetter, updatedValueSet,
                 descriptorTargetMap, sandboxRunning, activeSandboxCount, described, calls>>
  /\ KeysFollow

\* ------------------------------------------------------------ proxy: has
unscopables == {"undefined", "Array", "Object", "String", "Boolean", "Math", "eval",
                "Number", "Symbol", "parseFloat", "Float32Array"}

\* a variant of the has trap that reports every key
proxy_has_everyKey(p, target, global) == TRUE

\* p in unscopables || p in target || p in rawWindow
proxy_has(p, target, global) ==
  p \in unscopables \/ hasOwn(target, p) \/ hasOwn(global, p)

Has(sb, p) == proxy_has(p, fakeWindow[sb], rawWindow)

ProxyHas(sb, p) ==
  /\ sb \in built
  /\ p = focus
  /\ Step
  /\ last' = Op("has", sb, p, "undefined", Absent, IF Has(sb, p) THEN "true" ELSE "false")
  /\ UNCHANGED <<rawWindow, focus, built, fakeWindow, propertiesWithGetter, updatedValueSet,
                 descriptorTargetMap, sandboxRunning, activeSandboxCount, fakeDocument,
                 described, calls>>
  /\ KeysFollow

\* ------------------------------------------------------------ proxy: ownKeys
Contains(seq, x) == \E i \in 1..Len(seq) : seq[i] = x

\* uniq keeps the first occurrence of every element
RECURSIVE uniq(_)
uniq(array) ==
  IF array = <<>> THEN <<>>
  ELSE LET front == uniq(SubSeq(array, 1, Len(array) - 1))
           x == array[Len(array)]
       IN  IF Contains(front, x) THEN front ELSE Append(front, x)

\* a variant of the ownKeys trap that lists the global's keys only
proxy_ownKeys_globalOnly(targetKeys, globalKeys) == ownKeysOf(globalKeys)

\* uniq(Reflect.ownKeys(rawWindow).concat(Reflect.ownKeys(target)))
proxy_ownKeys(targetKeys, globalKeys) == uniq(ownKeysOf(globalKeys) \o ownKeysOf(targetKeys))

OwnKeys(sb) == proxy_ownKeys(fakeWindowKeys[sb], rawWindowKeys)

ProxyOwnKeys(sb) ==
  /\ sb \in built
  /\ Step
  /\ last' = [Op("ownKeys", sb, "none", "undefined", Absent, "keys") EXCEPT
                !.keys = OwnKeys(sb)]
  /\ UNCHANGED <<rawWindow, focus, built, fakeWindow, propertiesWithGetter, updatedValueSet,
                 descriptorTargetMap, sandboxRunning, activeSandboxCount, fakeDocument,
                 described, calls>>
  /\ KeysFollow

\* ------------------------------------------------------------ proxy: deleteProperty
\* the outcome of delete proxy[p]
proxy_deleteProperty(d) ==
  IF d.kind # "absent"
  THEN IF CanDelete(d)
       THEN [prop |-> Absent, removed |-> TRUE, ret |-> "true"]
       ELSE [prop |-> d, removed |-> FALSE, ret |-> "TypeError"]
  ELSE [prop |-> d, removed |-> FALSE, ret |-> "true"]

ProxyDelete(sb, p) ==
  LET out == proxy_deleteProperty(fakeWindow[sb][p])
  IN  /\ sb \in built
      /\ p = focus
      /\ Step
      /\ fakeWindow' = [fakeWindow EXCEPT ![sb][p] = out.prop]
      /\ updatedValueSet' = [updatedValueSet EXCEPT
                               ![sb] = IF out.removed THEN @ \ {p} ELSE @]
      /\ last' = Op("deleteProperty", sb, p, "undefined", Absent, out.ret)
      /\ UNCHANGED <<rawWindow, focus, built, propertiesWithGetter, descriptorTargetMap,
                     sandboxRunning, activeSandboxCount, fakeDocument, described, calls>>
      /\ KeysFollow

\* ------------------------------------------------------------ proxy: getOwnPropertyDescriptor
\* the outcome of Object.getOwnPropertyDescriptor(proxy, p): the origin the
\* trap records ("none" when it records nothing), the descriptor it returns,
\* and what the caller sees.  A Proxy refuses to report a non-configurable
\* property its target does not own.
proxy_getOwnPropertyDescriptor(d, g) ==
  IF d.kind # "absent"
  THEN [from |-> "target", desc |-> d, ret |-> "descriptor"]
  ELSE IF g.kind # "absent"
  THEN [from |-> "rawWindow", desc |-> g,
        ret |-> IF g.configurable THEN "descriptor" ELSE "TypeError"]
  ELSE [from |-> "none", desc |-> Absent, ret |-> "undefined"]

ProxyDescribe(sb, p) ==
  LET out == proxy_getOwnPropertyDescriptor(fakeWindow[sb][p], rawWindow[p])
  IN  /\ sb \in built
      /\ p = focus
      /\ Step
      /\ descriptorTargetMap' = [descriptorTargetMap EXCEPT
                                   ![sb][p] = IF out.from = "none" THEN @ ELSE out.from]
      /\ described' = [described EXCEPT
                         ![sb][p] = IF hasOwn(fakeWindow[sb], p)
                                    THEN [latest |-> "overlay", resolved |-> "overlay"]
                                    ELSE IF hasOwn(rawWindow, p)
                                    THEN [latest |-> "shared", resolved |-> "shared"]
                                    ELSE [latest |-> "nothing", resolved |-> @.resolved]]
      /\ last' = Op("getOwnPropertyDescriptor", sb, p, "undefined", out.desc, out.ret)
      /\ UNCHANGED <<rawWindow, focus, built, fakeWindow, propertiesWithGetter,
                     updatedValueSet, sandboxRunning, activeSandboxCount, fakeDocument, calls>>
      /\ KeysFollow

\* ------------------------------------------------------------ proxy: defineProperty
\* the Proxy's check after a defineProperty trap that returned true, against
\* the target's own property d
DefineInvariantHolds(d, desc) ==
  IF d.kind = "absent"
  THEN desc.configurable
  ELSE /\ CanDefine(d, desc)
       /\ ~(~desc.configurable /\ d.configurable)
       /\ ~(d.kind = "data" /\ ~d.configurable /\ d.writable /\ ~desc.writable)

\* a variant whose default branch is the global object
defineTarget_defaultRaw(from) == IF from = "target" THEN "target" ELSE "rawWindow"

\* the object the defineProperty trap defines the property on
defineTarget(from) == IF from = "rawWindow" THEN "rawWindow" ELSE "target"

\* the outcome of Reflect.defineProperty(proxy, p, desc): the overlay and the
\* global property afterwards and what the caller sees
proxy_defineProperty(from, d, g, desc) ==
  IF defineTarget(from) = "rawWindow"
  THEN IF CanDefine(g, desc)
       THEN [target |-> d, global |-> desc, on |-> "rawWindow",
             ret |-> IF DefineInvariantHolds(d, desc) THEN "true" ELSE "TypeError"]
       ELSE [target |-> d, global |-> g, on |-> "rawWindow", ret |-> "false"]
  ELSE IF CanDefine(d, desc)
       THEN [target |-> desc, global |-> g, on |-> "target", ret |-> "true"]
       ELSE [target |-> d, global |-> g, on |-> "target", ret |-> "false"]

ProxyDefine(sb, p, desc) ==
  LET out == proxy_defineProperty(descriptorTargetMap[sb][p], fakeWindow[sb][p],
                                  rawWindow[p], desc)
  IN  /\ sb \in built
      /\ p = focus
      /\ Step
      /\ fakeWindow' = [fakeWindow EXCEPT ![sb][p] = out.target]
      /\ rawWindow' = [rawWindow EXCEPT ![p] = out.global]
      /\ last' = Op("defineProperty", sb, p, out.on, desc, out.ret)
      /\ UNCHANGED <<focus, built, propertiesWithGetter, updatedValueSet,
                     descriptorTargetMap, sandboxRunning, activeSandboxCount, fakeDocument,
                     described, calls>>
      /\ KeysFollow

\* ------------------------------------------------------------ environment
\* the platform or the host page changes the value of a live property of the
\* shared global object
GlobalChange(value) ==
  /\ value \in LiveValues(focus)
  /\ hasOwn(rawWindow, focus)
  /\ rawWindow[focus].kind = "accessor" \/ rawWindow[focus].writable
  /\ rawWindow[focus].value # value
  /\ Step
  /\ rawWindow' = [rawWindow EXCEPT ![focus].value = value]
  /\ last' = Op("global", "none", focus, value, Absent, "undefined")
  /\ UNCHANGED <<focus, built, fakeWindow, propertiesWithGetter, updatedValueSet,
                 descriptorTargetMap, sandboxRunning, activeSandboxCount, fakeDocument,
                 described, calls>>
  /\ KeysFollow

\* the host page removes a configurable property of the shared global object
GlobalDelete ==
  /\ hasOwn(rawWindow, focus)
  /\ rawWindow[focus].configurable
  /\ Step
  /\ rawWindow' = [rawWindow EXCEPT ![focus] = Absent]
  /\ last' = Op("global.delete", "none", focus, "undefined", Absent, "true")
  /\ UNCHANGED <<focus, built, fakeWindow, propertiesWithGetter, updatedValueSet,
                 descriptorTargetMap, sandboxRunning, activeSandboxCount, fakeDocument,
                 described, calls>>
  /\ KeysFollow

\* ------------------------------------------------------------ specification
Next ==
  \/ \E sb \in Sandboxes : Construct(sb)
  \/ \E sb \in Sandboxes : active(sb)
  \/ \E sb \in Sandboxes : inactive(sb)
  \/ \E sb \in Sandboxes, p \in Keys, value \in WriteValues : ProxySet(sb, p, value)
  \/ \E sb \in Sandboxes, p \in Keys : ProxyGet(sb, p)
  \/ \E sb \in Sandboxes, p \in Keys : ProxyHas(sb, p)
  \/ \E sb \in Sandboxes : ProxyOwnKeys(sb)
  \/ \E sb \in Sandboxes, p \in Keys : ProxyDelete(sb, p)
  \/ \E sb \in Sandboxes, p \in Keys : ProxyDescribe(sb, p)
  \/ \E sb \in Sandboxes, p \in Keys, desc \in DefineDescs : ProxyDefine(sb, p, desc)
  \/ \E sb \in Sandboxes, owner \in built :
       DocumentSet(sb, attachDocProxySymbol, proxy(owner))
  \/ \E sb \in Sandboxes : DocumentSet(sb, "createElement", "customCreateElement")
  \/ \E sb \in Sandboxes, p \in DocKeys : DocumentGet(sb, p)
  \/ \E sb \in Sandboxes, p \in DocKeys : DocumentDelete(sb, p)
  \/ \E value \in {"/a", "/b", "2", "3"} : GlobalChange(value)
  \/ GlobalDelete

Spec == Init /\ [][Next]_vars

\* ------------------------------------------------------------ claims
\* keys the get trap answers before any lookup
Reserved == Aliases \cup {"hasOwnProperty", "document"}

\* keys the get trap answers without looking at the overlay or the global
AnsweredFirst == Reserved \cup {SymbolUnscopables}

\* key k is owned neither by the shared global object nor by sb's overlay
AbsentFromBoth(sb, k) == ~hasOwn(rawWindow, k) /\ ~hasOwn(fakeWindow[sb], k)

\* the step just taken is operation op (a stuttering step is none)
Did(op) == last'.op = op /\ steps' # steps

\* some sandbox other than sb is constructed and running
SiblingRunning(sb) == \E o \in built \ {sb} : sandboxRunning[o]

\* C1 as stated - isolation between instances: a Write on one sandbox's
\* global handle leaves the shared global object and every other sandbox's
\* overlay as they were; a key that neither the shared global object nor the
\* other sandbox's overlay owns is still owned by neither afterwards and
\* reads undefined on the other handle.
C1_Isolation ==
  [][Did("set") =>
       /\ rawWindow' = rawWindow
       /\ \A b \in built, k \in Keys :
            (b # last'.sb /\ k = last'.key) =>
              /\ fakeWindow'[b] = fakeWindow[b]
              /\ (~hasOwn(rawWindow, k) /\ ~hasOwn(fakeWindow[b], k)) =>
                   /\ ~hasOwn(rawWindow', k)
                   /\ ~hasOwn(fakeWindow'[b], k)
                   /\ Read(b, k)' = "undefined"]_vars

\* C1 amended - the same, with Read on the other handle undefined for every
\* such key except the keys the get trap answers first, which read as they
\* did before the Write.
C1_IsolationOfLookedUpKeys ==
  [][Did("set") =>
       /\ rawWindow' = rawWindow
       /\ \A b \in built, k \in Keys :
            (b # last'.sb /\ k = last'.key) =>
              /\ fakeWindow'[b] = fakeWindow[b]
              /\ Read(b, k)' = Read(b, k)
              /\ (~hasOwn(rawWindow, k) /\ ~hasOwn(fakeWindow[b], k)) =>
                   /\ ~hasOwn(rawWindow', k)
                   /\ ~hasOwn(fakeWindow'[b], k)
                   /\ k \notin AnsweredFirst => Read(b, k)' = "undefined"]_vars

\* A wrote 1 to "counter", which the global lacks; B still reads undefined
C1_Witness ==
  /\ last.op = "set" /\ last.sb = "A" /\ last.key = "counter" /\ last.value = "1"
  /\ last.ret = "true"
  /\ "B" \in built
  /\ ~hasOwn(rawWindow, "counter")
  /\ hasOwn(fakeWindow["A"], "counter")
  /\ Read("A", "counter") = "1"
  /\ Read("B", "counter") = "undefined"

\* C2 - write-then-read: after a completed Write(key, v) on a running sandbox,
\* for a key that is neither Getter-Backed nor reserved (nor the unscopables
\* symbol), Read(key) on the same handle returns v, for every written value
\* v, falsy values included.
C2_WriteThenRead ==
  (/\ last.op = "set" /\ last.ret = "true"
   /\ sandboxRunning[last.sb]
   /\ last.key \notin (propertiesWithGetter[last.sb] \cup AnsweredFirst))
  => Read(last.sb, last.key) = last.value

\* C3 - last-active teardown sequence: when the lifecycle calls made are
\* activate(A); activate(B); deactivate(A); deactivate(B), the teardown hook
\* gets isLastActive = false for A and isLastActive = true for B.
C3_LastActiveSequence ==
  (/\ Len(calls) = 4
   /\ calls[1].op = "active" /\ calls[1].sb = "A"
   /\ calls[2].op = "active" /\ calls[2].sb = "B"
   /\ calls[3].op = "inactive" /\ calls[3].sb = "A"
   /\ calls[4].op = "inactive" /\ calls[4].sb = "B")
  => (~calls[3].isLastActive /\ calls[4].isLastActive)

\* C4 - last-active cleanup never fires early: a deactivate() made while some
\* other sandbox is running hands isLastActive = false to the teardown hook.
C4_NoEarlyLastActive ==
  (last.op = "inactive" /\ SiblingRunning(last.sb)) => ~last.isLastActive

\* B is deactivated while A, activated again after a deactivation, is running
C4_Witness ==
  /\ last.op = "inactive" /\ last.sb = "B"
  /\ "A" \in built /\ sandboxRunning["A"]
  /\ \E i \in 1..Len(calls) : calls[i].op = "inactive" /\ calls[i].sb = "A"
  /\ ~last.isLastActive

\* C5 as stated - for every key of the Getter-Backed Key Set, Read(key) after
\* a Write(key, v) on a running sandbox returns the shared global object's
\* current value.
C5_GetterBackedAnyKey ==
  (/\ last.op = "set"
   /\ sandboxRunning[last.sb]
   /\ last.key \in propertiesWithGetter[last.sb])
  => Read(last.sb, last.key) = PropValue(rawWindow, last.key, TRUE)

\* C5 amended - in every state, so after any Write and after any later change
\* of the shared value, Read(key) of a Getter-Backed key that is not a
\* reserved key returns the shared global object's current value.
C5_GetterBackedLive ==
  \A sb \in built : \A k \in propertiesWithGetter[sb] \ Reserved :
    Read(sb, k) = PropValue(rawWindow, k, TRUE)

\* "location" changed in the global after the snapshot, then was written
C5_Witness ==
  /\ last.op = "set" /\ last.key = "location"
  /\ sandboxRunning[last.sb]
  /\ "location" \in propertiesWithGetter[last.sb]
  /\ rawWindow["location"].value = "/b"
  /\ last.value # "/b"
  /\ Read(last.sb, "location") = "/b"

\* C6 - write while inactive is warn-and-succeed: a Write on the handle of a
\* sandbox that is not running reports success, leaves the overlay and the
\* Mutation Set unchanged, does not call the onWrite hook, and leaves what
\* Read(key) returns unchanged.
C6_InactiveWrite ==
  [][\A sb \in built, k \in Keys :
       (Did("set") /\ last'.sb = sb /\ last'.key = k /\ ~sandboxRunning[sb]) =>
         /\ last'.ret = "true"
         /\ fakeWindow' = fakeWindow
         /\ updatedValueSet' = updatedValueSet
         /\ ~last'.intercepted
         /\ Read(sb, k)' = Read(sb, k)]_vars

\* C7 - self-reference aliases never escape: in every state Read of an alias
\* key on a sandbox's handle returns that sandbox's own handle.
C7_AliasReturnsHandle ==
  \A sb \in built : \A k \in Aliases \cap Keys : Read(sb, k) = proxy(sb)

\* C8 as stated - define routing by recorded origin: Define(key, d) is
\* applied to the shared global object, and the overlay is left alone,
\* exactly when the latest Describe(key) on the handle resolved key from the
\* shared global object; otherwise, also when key was never described, it is
\* applied to the overlay and the shared global object is left alone.
C8_DefineRoutingByLatestDescribe ==
  [][\A sb \in built, k \in Keys :
       (Did("defineProperty") /\ last'.sb = sb /\ last'.key = k) =>
         IF described[sb][k].latest = "shared"
         THEN /\ fakeWindow' = fakeWindow
              /\ rawWindow'[k] = IF CanDefine(rawWindow[k], last'.desc)
                                 THEN last'.desc ELSE rawWindow[k]
         ELSE /\ rawWindow' = rawWindow
              /\ fakeWindow'[sb][k] = IF CanDefine(fakeWindow[sb][k], last'.desc)
                                      THEN last'.desc ELSE fakeWindow[sb][k]]_vars

\* C8 amended - Define(key, d) is applied to the shared global object, and
\* the overlay is left alone, exactly when the latest Describe(key) on the
\* handle that found the key found it in the shared global object (a Describe
\* that finds the key in neither object records nothing); otherwise, also
\* when no Describe ever found the key, it is applied to the overlay and the
\* shared global object is left alone.
C8_DefineRouting ==
  [][\A sb \in built, k \in Keys :
       (Did("defineProperty") /\ last'.sb = sb /\ last'.key = k) =>
         IF described[sb][k].resolved = "shared"
         THEN /\ fakeWindow' = fakeWindow
              /\ rawWindow'[k] = IF CanDefine(rawWindow[k], last'.desc)
                                 THEN last'.desc ELSE rawWindow[k]
         ELSE /\ rawWindow' = rawWindow
              /\ fakeWindow'[sb][k] = IF CanDefine(fakeWindow[sb][k], last'.desc)
                                      THEN last'.desc ELSE fakeWindow[sb][k]]_vars

\* "foo" was described from the global, removed from the global, described
\* again (found nowhere) and then defined: the definition went to the global
C8_Witness ==
  /\ last.op = "defineProperty" /\ last.key = "foo"
  /\ described[last.sb]["foo"].latest = "nothing"
  /\ described[last.sb]["foo"].resolved = "shared"
  /\ rawWindow["foo"] = last.desc
  /\ ~hasOwn(fakeWindow[last.sb], "foo")

\* C9 - document-layer delete is linked: after Delete of the Attribution-Tag
\* key or of "createElement" on the document handle, the document overlay
\* holds neither the Attribution Tag nor the element-creation function.
C9_LinkedDelete ==
  last.op = "document.deleteProperty" =>
    /\ fakeDocument[last.sb].tag = NoProperty
    /\ fakeDocument[last.sb].createElement = NoProperty

\* C10 - Mutation Set tracking: a completed Write on a running sandbox adds
\* the key to the Mutation Set; a Delete removes it; a Delete of a key that is
\* not in the Mutation Set (never written, or deleted since) reports success
\* and leaves the overlay, the Mutation Set and the shared global object
\* unchanged.
C10_MutationSet ==
  [][\A sb \in built, k \in Keys :
       /\ (/\ Did("set") /\ last'.sb = sb /\ last'.key = k
           /\ sandboxRunning[sb] /\ last'.ret = "true")
            => k \in updatedValueSet'[sb]
       /\ (Did("deleteProperty") /\ last'.sb = sb /\ last'.key = k)
            => /\ k \notin updatedValueSet'[sb]
               /\ k \notin updatedValueSet[sb] =>
                    /\ last'.ret = "true"
                    /\ fakeWindow' = fakeWindow
                    /\ updatedValueSet' = updatedValueSet
                    /\ rawWindow' = rawWindow]_vars

\* C11 - deactivation keeps the overlay: deactivate() leaves the sandbox's
\* overlay and Mutation Set unchanged, and neither deactivate() nor the
\* activate() that follows it changes what Read(key) returns on the handle, so
\* after deactivate(); activate() every Read returns what it returned before.
C11_DeactivateKeepsOverlay ==
  [][\A sb \in built :
       /\ (Did("inactive") /\ last'.sb = sb) =>
            /\ fakeWindow'[sb] = fakeWindow[sb]
            /\ updatedValueSet'[sb] = updatedValueSet[sb]
            /\ \A k \in Keys : Read(sb, k)' = Read(sb, k)
       /\ (Did("active") /\ last'.sb = sb /\ ~sandboxRunning[sb]) =>
            /\ fakeWindow'[sb] = fakeWindow[sb]
            /\ updatedValueSet'[sb] = updatedValueSet[sb]
            /\ \A k \in Keys : Read(sb, k)' = Read(sb, k)]_vars

\* a sandbox wrote 1 to "counter", was deactivated and activated again, and
\* still reads 1
C11_Witness ==
  /\ last.op = "active"
  /\ Len(calls) >= 2
  /\ calls[Len(calls) - 1].op = "inactive" /\ calls[Len(calls) - 1].sb = last.sb
  /\ sandboxRunning[last.sb]
  /\ "counter" \in updatedValueSet[last.sb]
  /\ fakeWindow[last.sb]["counter"].value = "1"
  /\ Read(last.sb, "counter") = "1"

\* C12 - activate() is idempotent: on a sandbox that is already running it
\* leaves the Active Sandbox Counter and the sandbox's state unchanged; on a
\* sandbox that is not running it adds exactly one to the counter and makes
\* the sandbox running.
C12_ActivateIdempotent ==
  [][\A sb \in built :
       (Did("active") /\ last'.sb = sb) =>
         IF sandboxRunning[sb]
         THEN /\ activeSandboxCount' = activeSandboxCount
              /\ sandboxRunning' = sandboxRunning
              /\ fakeWindow' = fakeWindow
              /\ updatedValueSet' = updatedValueSet
              /\ descriptorTargetMap' = descriptorTargetMap
              /\ fakeDocument' = fakeDocument
         ELSE /\ activeSandboxCount' = activeSandboxCount + 1
              /\ sandboxRunning'[sb]]_vars

\* deactivate(A); activate(A); activate(A): the second activate found A
\* running and the counter is back at 0, not at 1
C12_Witness ==
  /\ Len(calls) = 3
  /\ calls[1].op = "inactive" /\ calls[2].op = "active" /\ calls[3].op = "active"
  /\ calls[1].sb = calls[2].sb /\ calls[2].sb = calls[3].sb
  /\ last.op = "active"
  /\ sandboxRunning[last.sb]
  /\ activeSandboxCount = 0

\* C13 as stated - absent keys are invisible: in every state, for every key
\* absent from both the shared global object and the sandbox's overlay,
\* Has(key) is false and Read(key) is undefined.
C13_AbsentInvisible ==
  \A sb \in built : \A k \in Keys :
    AbsentFromBoth(sb, k) => (~Has(sb, k) /\ Read(sb, k) = "undefined")

\* C13 amended - in every state, for every key absent from both the shared
\* global object and the sandbox's overlay: Has(key) is false unless the key
\* is on the always-visible list, where it is true; Read(key) is undefined
\* unless the key is one the get trap answers first.
C13_AbsentInvisibleUnlessListed ==
  \A sb \in built : \A k \in Keys :
    AbsentFromBoth(sb, k) =>
      /\ Has(sb, k) <=> k \in unscopables
      /\ k \notin AnsweredFirst => Read(sb, k) = "undefined"

\* "foo" was removed from the shared global object and the handle was asked
\* for it: it has no "foo"
C13_Witness ==
  /\ last.op = "has" /\ last.key = "foo" /\ last.ret = "false"
  /\ InitialWindow["foo"].kind = "data"
  /\ AbsentFromBoth(last.sb, "foo")
  /\ Read(last.sb, "foo") = "undefined"

\* C14 - EnumerateKeys is the exact union: in every state, EnumerateKeys() on
\* a handle lists every own key of the shared global object and every own
\* key of that sandbox's overlay, no other key, and each key exactly once.
C14_OwnKeysExactUnion ==
  \A sb \in built :
    LET keys == OwnKeys(sb)
    IN  /\ \A k \in Keys :
             Contains(keys, k) <=> (hasOwn(rawWindow, k) \/ hasOwn(fakeWindow[sb], k))
        /\ \A i \in 1..Len(keys) :
             /\ keys[i] \in Keys
             /\ \A j \in 1..Len(keys) : keys[i] = keys[j] => i = j

\* the keys were enumerated when "counter" was owned by the overlay alone and
\* "top" by both objects
C14_Witness ==
  /\ last.op = "ownKeys"
  /\ last.keys = OwnKeys(last.sb)
  /\ hasOwn(fakeWindow[last.sb], "counter") /\ ~hasOwn(rawWindow, "counter")
  /\ hasOwn(fakeWindow[last.sb], "top") /\ hasOwn(rawWindow, "top")
  /\ Contains(last.keys, "counter") /\ Contains(last.keys, "top")

\* C15 - re-tagging replaces the element-creation function: on the document
\* handle, writing the Attribution Tag with an identity other than the stored
\* one stores that identity, and reading "createElement" afterwards yields the
\* function resolved for the new identity, rebound to the document root; it
\* replaces whatever was there (the function of the previous identity or a
\* caller-supplied override) and differs from it.
C15_RetagReplaces ==
  [][\A sb \in built :
       (/\ Did("document.set") /\ last'.sb = sb /\ last'.key = attachDocProxySymbol
        /\ DocGet(fakeDocument[sb].tag) # last'.value)
       => /\ documentProxy_get(fakeDocument'[sb], attachDocProxySymbol) = last'.value
          /\ documentProxy_get(fakeDocument'[sb], "createElement")
               = getTargetValue("rawDocument", getCreateElement(last'.value))
          /\ documentProxy_get(fakeDocument'[sb], "createElement")
               # documentProxy_get(fakeDocument[sb], "createElement")]_vars

\* A's document handle, which held the function resolved for A, was tagged
\* with B's identity and now holds the function resolved for B
C15_Witness ==
  /\ last.op = "document.set" /\ last.sb = "A" /\ last.key = attachDocProxySymbol
  /\ last.value = proxy("B")
  /\ last.replaced = getTargetValue("rawDocument", getCreateElement(proxy("A")))
  /\ fakeDocument["A"].tag = proxy("B")
  /\ documentProxy_get(fakeDocument["A"], "createElement")
       = getTargetValue("rawDocument", getCreateElement(proxy("B")))
  /\ documentProxy_get(fakeDocument["A"], "createElement")
       # getTargetValue("rawDocument", getCreateElement(proxy("A")))

\* C16 - createElement is restored after deletion: once Read("document") on
\* the global handle has returned, also when it follows a Delete of
\* "createElement" or of the Attribution-Tag key on the document handle,
\* Read("createElement") on the document handle returns a function, not
\* undefined.
C16_RestoredAfterDelete ==
  (last.op = "get" /\ last.key = "document" /\ last.ret = documentProxy(last.sb))
  => documentProxy_get(fakeDocument[last.sb], "createElement") # "undefined"

\* C17 - Delete always succeeds and takes effect: Delete(key) on the global
\* handle, for every key, the keys seeded from the non-configurable snapshot
\* included, reports success without throwing; afterwards the overlay does
\* not own the key, the key is not in the Mutation Set, and Read of a key
\* that is not reserved gives the shared global object's value.
C17_DeleteSucceeds ==
  [][\A sb \in built, k \in Keys :
       (Did("deleteProperty") /\ last'.sb = sb /\ last'.key = k) =>
         /\ last'.ret = "true"
         /\ ~hasOwn(fakeWindow'[sb], k)
         /\ k \notin updatedValueSet'[sb]
         /\ k \notin AnsweredFirst =>
              Read(sb, k)' = getTargetValue("rawWindow", PropValue(rawWindow', k, TRUE))]_vars

\* the lifecycle calls made so far keep the caller contract: no sandbox was
\* deactivated twice without an activate in between
ContractKept ==
  \A i, j \in 1..Len(calls) :
    (i < j /\ calls[i].op = "inactive" /\ calls[j].op = "inactive"
     /\ calls[i].sb = calls[j].sb)
    => \E m \in (i + 1)..(j - 1) : calls[m].op = "active" /\ calls[m].sb = calls[i].sb

\* C18 - the counter matches the running sandboxes: in every state reached by
\* constructing sandboxes and calling activate()/deactivate() within the
\* caller contract, the Active Sandbox Counter equals the number of running
\* sandboxes, and is never negative.
C18_CounterMatchesRunning ==
  ContractKept =>
    /\ activeSandboxCount = Cardinality({sb \in built : sandboxRunning[sb]})
    /\ activeSandboxCount >= 0

\* C19 - Define on an overlay-owned key stays private: a Define(key, d) made
\* while the sandbox's overlay owns the key leaves the shared global object
\* unchanged, and so leaves what every other sandbox reads for the key
\* unchanged.
C19_DefineOwnedStaysPrivate ==
  [][\A sb \in built, k \in Keys :
       (/\ Did("defineProperty") /\ last'.sb = sb /\ last'.key = k
        /\ hasOwn(fakeWindow[sb], k))
       => /\ rawWindow' = rawWindow
          /\ \A b \in built \ {sb} : Read(b, k)' = Read(b, k)]_vars

\* C20 - no element-creation function without a tag: in every state, a
\* document overlay that holds a "createElement" entry also holds an
\* Attribution Tag.
C20_NoFunctionWithoutTag ==
  \A sb \in built :
    fakeDocument[sb].createElement # NoProperty => fakeDocument[sb].tag # NoProperty

====
